---- MODULE Spec2Model ----
(***************************************************************************)
(* Multiframe 3D hip-ultrasound analysis of retuve: the volume pipeline    *)
(* handle_bad_frames -> find_graf_plane -> set_side ->                     *)
(* get_3d_metrics_and_visuals, run on one volume (HipDatasUS + results).   *)
(*                                                                         *)
(* Metric values are integers counting thousandths (60000 is 60.0 degrees, *)
(* 501 is a coverage of 0.501); round(x, 2) is rounding to a multiple of   *)
(* 10.  frame_no and graf_frame are 0-based as in the code, sequences are  *)
(* 1-based, so the frame at list index i is hip_datas[i + 1].              *)
(***************************************************************************)
EXTENDS Integers, Sequences, FiniteSets, TLC

\* ---------------------------------------------------------------- bounds
MaxFrames == 3
MaxEmptyBuckets == 1
MaxSideRuns == 2

\* ------------------------------------------------------------- constants
None == -1            \* Python None for the integer-valued fields
NA == -2              \* the "N/A" placeholder of Metric3D
BadAlphaLow == 20000  \* bad_alpha: alpha < 20
BadAlphaHigh == 100000 \* bad_alpha: alpha > 100
z_gap == 2500         \* config.hip.z_gap = 2.5, in thousandths

ALPHA == "alpha"
COVERAGE == "coverage"
ACA == "aca"
CENTERING_RATIO == "cen. ratio"

\* config.hip.measurements of the default ultrasound configuration
Measurements == <<ALPHA, COVERAGE>>
MetricNames == {ALPHA, COVERAGE}

\* Side.ALL(): the order in which get_aca walks the zones
SideAll == <<"POST", "ANT", "GRAF">>
SideZ == {"LEFT", "RIGHT"}
Buckets == SideZ \X {"POST", "ANT", "GRAF"}

\* inputs: per-frame values the landmark extractor can produce
GoodAlphas == {60000, 70000}
Coverages == {0, 501}
Deltas == {0, 1}

\* ----------------------------------------------------------------- state
VARIABLES
    hip_datas,      \* HipDatasUS.hip_datas: the frame sequence
    results,        \* List[SegFrameObjects], parallel to hip_datas
    graf_frame,     \* HipDatasUS.graf_frame (None until selected)
    grafs_hip,      \* HipDatasUS.grafs_hip: identity of the selected frame object
    errors,         \* RecordedError.errors
    critical,       \* RecordedError.critical
    metrics,        \* HipDatasUS.metrics: the final Metric3D list
    allow_flipping, \* config.hip.allow_flipping
    pc,             \* stage of analyse_hip_3DUS about to run
    side_runs,      \* how many times set_side has run
    hist            \* history of the run, used only to state properties

vars == <<hip_datas, results, graf_frame, grafs_hip, errors, critical,
          metrics, allow_flipping, pc, side_runs, hist>>

\* ------------------------------------------------------------- arithmetic
Abs(x) == IF x < 0 THEN -x ELSE x

\* floor division for a positive divisor (Python //)
FloorDiv(a, b) == IF a >= 0 THEN a \div b ELSE -((-a + b - 1) \div b)

\* round(num / den) to the nearest integer, exact ties to the even integer
\* (Python's round on an exactly representable tie); num >= 0, den > 0
RoundDiv(num, den) ==
    LET q == num \div den
        r == num % den
    IN  IF 2 * r < den THEN q
        ELSE IF 2 * r > den THEN q + 1
        ELSE IF q % 2 = 0 THEN q ELSE q + 1

RECURSIVE SumSeq(_)
SumSeq(s) == IF s = <<>> THEN 0 ELSE Head(s) + SumSeq(Tail(s))

Reverse(s) == [i \in 1..Len(s) |-> s[Len(s) + 1 - i]]

\* utils.rmean: round(statistics.mean(values), 2); thousandths in and out
rmean(values) == 10 * RoundDiv(SumSeq(values), 10 * Len(values))

\* ---------------------------------------------------------------- frames
\* HipDataUS(frame_no=n): metrics None, landmarks None, side None
EmptyHip(id, n) ==
    [id |-> id, frame_no |-> n, has_metrics |-> FALSE,
     value |-> [m \in MetricNames |-> 0],
     landmarks |-> "None", flat |-> TRUE, close |-> TRUE, mid_y |-> 0,
     side |-> "None"]

\* HipDataUS.get_metric
get_metric(hip, name) ==
    IF ~hip.has_metrics THEN 0
    ELSE IF name \in MetricNames THEN hip.value[name] ELSE 0

\* HipDataUS.marked
marked(hip) ==
    IF ~hip.has_metrics THEN FALSE
    ELSE \E m \in MetricNames : hip.value[m] # 0

has_apex(hip) == hip.landmarks \in {"alpha", "cov"}

\* a bad_alpha that only looks at the upper limit
bad_alpha_high_only(hip) == get_metric(hip, ALPHA) > BadAlphaHigh

\* alpha.bad_alpha
bad_alpha(hip) ==
    get_metric(hip, ALPHA) < BadAlphaLow \/ get_metric(hip, ALPHA) > BadAlphaHigh

\* bad_data.left_apex_line_flat: missing left/apex counts as flat
left_apex_line_flat(hip) ==
    IF ~has_apex(hip) THEN TRUE ELSE hip.flat

\* bad_data.apex_right_points_too_close: missing right/apex counts as too close
apex_right_points_too_close(hip) ==
    IF ~has_apex(hip) THEN TRUE ELSE hip.close

\* ------------------------------------------------------------ stage order
\* analyse_hip_3DUS with the orientation step ahead of the frame selection
NextStage_orientation_first(stage) ==
    IF stage = "validate" THEN "side"
    ELSE IF stage = "side" THEN "graf"
    ELSE IF stage = "graf" THEN "metrics"
    ELSE "done"

\* the stage analyse_hip_3DUS calls after the given one: handle_bad_frames
\* ("validate"), find_graf_plane ("graf"), the orientation step ("side"),
\* get_3d_metrics_and_visuals ("metrics")
NextStage(stage) ==
    IF stage = "validate" THEN "graf"
    ELSE IF stage = "graf" THEN "side"
    ELSE IF stage = "side" THEN "metrics"
    ELSE "done"

\* ------------------------------------------------------- remove_outliers
pred_made_of(hds) == [i \in 1..Len(hds) |-> marked(hds[i])]

CountTrue(pm, lo, hi) == Cardinality({j \in lo..hi : pm[j]})

\* the sliding-window loop: i is the 0-based window start, acc the pair
\* <<max_true, max_true_index>> carried through the iterations
\* a sliding-window loop that lets a later window of equal count win
RECURSIVE SlideLoop_last_max(_, _, _, _)
SlideLoop_last_max(pm, total_true, i, acc) ==
    IF i > Len(pm) - total_true THEN acc
    ELSE LET current_window_true == CountTrue(pm, i + 1, i + total_true)
         IN  IF current_window_true >= acc[1]
             THEN SlideLoop_last_max(pm, total_true, i + 1,
                                     <<current_window_true, i>>)
             ELSE SlideLoop_last_max(pm, total_true, i + 1, acc)

RECURSIVE SlideLoop(_, _, _, _)
SlideLoop(pm, total_true, i, acc) ==
    IF i > Len(pm) - total_true THEN acc
    ELSE LET current_window_true == CountTrue(pm, i + 1, i + total_true)
         IN  IF current_window_true > acc[1]
             THEN SlideLoop(pm, total_true, i + 1, <<current_window_true, i>>)
             ELSE SlideLoop(pm, total_true, i + 1, acc)

\* a remove_outliers that keeps the whole window, marked or not
remove_outliers_whole_window(hds) ==
    LET pm == pred_made_of(hds)
        total_true == CountTrue(pm, 1, Len(pm))
        max_true_index == SlideLoop(pm, total_true, 0, <<0, 0>>)[2]
    IN  [i \in 1..Len(pm) |->
            (i - 1 >= max_true_index /\ i - 1 < max_true_index + total_true)]

remove_outliers(hds) ==
    LET pm == pred_made_of(hds)
        total_true == CountTrue(pm, 1, Len(pm))
        max_true_index == SlideLoop(pm, total_true, 0, <<0, 0>>)[2]
    IN  [i \in 1..Len(pm) |->
            (i - 1 >= max_true_index /\ i - 1 < max_true_index + total_true
             /\ pm[i])]

\* ----------------------------------------------------- handle_bad_frames
\* the per-frame decision of handle_bad_frames, in the order of its tests
bad_frame(hip, kept) ==
    \/ ~kept
    \/ ~hip.has_metrics
    \/ \A m \in MetricNames : hip.value[m] = 0
    \/ hip.landmarks = "None"
    \/ bad_alpha(hip)
    \/ ~left_apex_line_flat(hip)
    \/ apex_right_points_too_close(hip)

handle_bad_frames(hds) ==
    LET keep == remove_outliers(hds)
    IN  [i \in 1..Len(hds) |->
            IF bad_frame(hds[i], keep[i])
            THEN EmptyHip(hds[i].id, hds[i].frame_no)
            ELSE hds[i]]

HandleBadFrames ==
    /\ pc = "validate"
    /\ hip_datas' = handle_bad_frames(hip_datas)
    /\ hist' = [hist EXCEPT !.keep = remove_outliers(hip_datas),
                            !.raw = hip_datas,
                            !.stages = Append(@, "handle_bad_frames")]
    /\ pc' = NextStage(pc)
    /\ UNCHANGED <<results, graf_frame, grafs_hip, errors, critical, metrics,
                   allow_flipping, side_runs>>

\* ------------------------------------------------------- find_graf_plane
\* index of the first maximal entry of a non-empty sequence of keys: the
\* element Python's max(..., key=...) returns
RECURSIVE FirstMaxLoop(_, _, _)
FirstMaxLoop(keys, i, best) ==
    IF i > Len(keys) THEN best
    ELSE IF keys[i] > keys[best] THEN FirstMaxLoop(keys, i + 1, i)
    ELSE FirstMaxLoop(keys, i + 1, best)

FirstMax(keys) == FirstMaxLoop(keys, 2, 1)

\* graf._get_left_apex_angle: True (1) without landmarks; the angle of a
\* validated frame is below 10 degrees and is taken as 0 here
left_apex_angle(hip) == IF hip.landmarks = "None" THEN 1 ELSE 0

\* graf_frame_algo, in units of 1/10000: the alpha and flatness terms and the
\* position bonus are computed; the image-derived terms (os ichium and
\* femoral head area, roundness, apex-right distance) are res.seg_score
graf_frame_algo(hip, res, max_alpha, first_illium_frame, last_illium_frame) ==
    LET alpha_value == RoundDiv(400 * get_metric(hip, ALPHA), max_alpha)
        line_flatness_value == (10 - left_apex_angle(hip)) * 5000
        illium_third_length ==
            FloorDiv(last_illium_frame - first_illium_frame, 3)
        graf_frame_position_value ==
            IF /\ hip.frame_no >= first_illium_frame + illium_third_length
               /\ hip.frame_no < last_illium_frame - illium_third_length
            THEN 3 ELSE 0
        total == 560 * alpha_value
                 + (471 * line_flatness_value) \div 100
                 + 1600 * graf_frame_position_value
                 + res.seg_score
    IN  100 * RoundDiv(total, 100)

\* a candidate filter that accepts a frame with any non-zero metric
good_graf_any_metric(hip) ==
    hip.has_metrics /\ \E m \in MetricNames : hip.value[m] # 0

\* the filter of any_good_graf_data: metrics present and all of them non-zero
good_graf(hip) ==
    hip.has_metrics /\ \A m \in MetricNames : hip.value[m] # 0

\* the (hip_data, seg_frame_objs) pairs of a volume, as zip builds them
Zipped(hds, res) == [i \in 1..Len(hds) |-> <<hds[i], res[i]>>]

IsGoodPair(p) == good_graf(p[1])
AlphaOfPair(p) == get_metric(p[1], ALPHA)
HasAlpha(hip) == get_metric(hip, ALPHA) # 0

\* a find_graf_plane that carries on after a zero maximum and takes the
\* first frame
max_alpha_zero_selects(hds, msgs) ==
    [errs |-> msgs, crit |-> Len(msgs) > 0,
     graf_frame |-> hds[1].frame_no, grafs_hip |-> hds[1].id]

\* the early return of find_graf_plane when max_alpha == 0
max_alpha_zero(hds, msgs) ==
    [errs |-> msgs \o <<"Max Alpha is 0.">>, crit |-> TRUE,
     graf_frame |-> None, grafs_hip |-> None]

\* the outcome of find_graf_plane on a volume: the diagnostics it appends,
\* whether it sets critical, and the graf_frame / grafs_hip it assigns
\* (None when it returns early)
find_graf_plane(hds, res) ==
    LET zipped == Zipped(hds, res)
        good == SelectSeq(zipped, IsGoodPair)
        no_good == Len(good) = 0
        any_good_graf_data == IF no_good THEN zipped ELSE good
        max_alpha ==
            AlphaOfPair(any_good_graf_data[
                FirstMax([k \in 1..Len(any_good_graf_data) |->
                            AlphaOfPair(any_good_graf_data[k])])])
        all_illiums == SelectSeq(hds, HasAlpha)
        first_illium_frame == all_illiums[1].frame_no
        last_illium_frame == all_illiums[Len(all_illiums)].frame_no
        Score(p) == graf_frame_algo(p[1], p[2], max_alpha,
                                    first_illium_frame, last_illium_frame)
        graf_hip ==
            any_good_graf_data[
                FirstMax([k \in 1..Len(any_good_graf_data) |->
                            Score(any_good_graf_data[k])])][1]
        found == CHOOSE i \in 1..Len(hds) :
                    /\ hds[i].frame_no = graf_hip.frame_no
                    /\ \A j \in 1..(i - 1) : hds[j].frame_no # graf_hip.frame_no
        msgs1 == IF no_good THEN <<"No Perfect Grafs Frames found.">> ELSE <<>>
    IN  IF max_alpha = 0
        THEN max_alpha_zero(hds, msgs1)
        ELSE [errs |-> msgs1, crit |-> no_good,
              graf_frame |-> graf_hip.frame_no, grafs_hip |-> hds[found].id]

FindGrafPlane ==
    /\ pc = "graf"
    /\ \E out \in {find_graf_plane(hip_datas, results)} :
           /\ errors' = errors \o out.errs
           /\ critical' = (critical \/ out.crit)
           /\ graf_frame' = (IF out.graf_frame = None THEN graf_frame
                             ELSE out.graf_frame)
           /\ grafs_hip' = (IF out.graf_frame = None THEN grafs_hip
                            ELSE out.grafs_hip)
    /\ hist' = [hist EXCEPT !.stages = Append(@, "find_graf_plane")]
    /\ pc' = NextStage(pc)
    /\ UNCHANGED <<hip_datas, results, metrics, allow_flipping, side_runs>>

\* ---------------------------------------------------------------- set_side
\* side.get_side_metainfo followed by the subtraction in set_side: the
\* vertical offset of a frame, or None when the frame contributes no sample
\* (offsets are small non-negative integers here, so None = -1 is distinct)
side_delta(hip, res) ==
    IF hip.landmarks = "None" \/ ~has_apex(hip) THEN None
    ELSE IF ~res.illium THEN None
    ELSE hip.mid_y - res.closest_y

\* the offsets of the frames on one side of graf, in frame order
SideSamples(hds, res, graf, front) ==
    LET Idx == SelectSeq([i \in 1..Len(hds) |-> i],
                         LAMBDA i : /\ side_delta(hds[i], res[i]) # None
                                    /\ (hds[i].frame_no < graf) = front)
    IN  [k \in 1..Len(Idx) |-> side_delta(hds[Idx[k]], res[Idx[k]])]

\* the swap of set_side with the index mirrored as len - 1 - graf_frame
swapped_graf_frame_mirrored(n, graf) == n - 1 - graf

\* the canonical index after a swap: len(hip_datas) - graf_frame
swapped_graf_frame(n, graf) == n - graf

\* a set_side that leaves critical alone when a half has no sample
no_side_critical_unset(front_side, back_side) == FALSE

\* whether the "No <half> Side." branch sets recorded_error.critical
no_side_critical(front_side, back_side) ==
    Len(front_side) = 0 \/ Len(back_side) = 0

\* a comparison that also swaps when the two averages are equal
back_at_least_front(front_side, back_side) ==
    SumSeq(back_side) * Len(front_side) >= SumSeq(front_side) * Len(back_side)

\* back_side_delta > front_side_delta, the two averages compared without
\* division (both lists are non-empty)
back_exceeds_front(front_side, back_side) ==
    SumSeq(back_side) * Len(front_side) > SumSeq(front_side) * Len(back_side)

\* a set_side that never takes the early return
no_side_detected_never(front_side, back_side) == FALSE

\* the test before "No Side Detected.": both lists equal [0], after an empty
\* list was replaced by [0]
no_side_detected(front_side, back_side) ==
    front_side = <<0>> /\ back_side = <<0>>

\* a swap that leaves every frame its old frame_no
renumbered_kept(flip_frames, i, frame_no) == frame_no

\* the frame_no of the frame at position i (from 0) after the final loop
renumbered(flip_frames, i, frame_no) ==
    IF flip_frames THEN i ELSE frame_no

\* the outcome of one call of set_side
set_side(hds, res, graf, flipping) ==
    LET front_side0 == SideSamples(hds, res, graf, TRUE)
        back_side0 == SideSamples(hds, res, graf, FALSE)
        no_side_errs ==
            (IF Len(front_side0) = 0 THEN <<"No Front Side.">> ELSE <<>>)
            \o (IF Len(back_side0) = 0 THEN <<"No Back Side.">> ELSE <<>>)
        front_side == IF Len(front_side0) = 0 THEN <<0>> ELSE front_side0
        back_side == IF Len(back_side0) = 0 THEN <<0>> ELSE back_side0
        flip == back_exceeds_front(front_side, back_side) /\ flipping
        n == Len(hds)
        graf2 == IF flip THEN swapped_graf_frame(n, graf) ELSE graf
        hds1 == IF flip THEN Reverse(hds) ELSE hds
        hds2 == [i \in 1..n |->
                    LET fno == renumbered(flip, i - 1, hds1[i].frame_no)
                    IN  [hds1[i] EXCEPT !.frame_no = fno,
                                        !.side = IF fno < graf2 THEN "ANT"
                                                 ELSE "POST"]]
    IN  IF no_side_detected(front_side, back_side)
        THEN [hds |-> hds, res |-> res, graf_frame |-> graf,
              errs |-> no_side_errs \o <<"No Side Detected.">>,
              crit |-> no_side_critical(front_side0, back_side0),
              flip |-> FALSE, front |-> Len(front_side0),
              back |-> Len(back_side0), assigned |-> FALSE,
              front_side |-> front_side0, back_side |-> back_side0]
        ELSE [hds |-> hds2, res |-> IF flip THEN Reverse(res) ELSE res,
              graf_frame |-> graf2,
              errs |-> no_side_errs
                       \o (IF flip THEN <<"Swapped Post and Ant">> ELSE <<>>),
              crit |-> no_side_critical(front_side0, back_side0),
              flip |-> flip, front |-> Len(front_side0),
              back |-> Len(back_side0), assigned |-> TRUE,
              front_side |-> front_side0, back_side |-> back_side0]

Ids(hds) == [i \in 1..Len(hds) |-> hds[i].id]

\* comparing frame_no with a graf_frame of None raises TypeError; that needs
\* a frame with an apex while no graf frame was selected
SetSide ==
    /\ \/ pc = "side"
       \/ pc = "metrics" /\ side_runs < MaxSideRuns
    /\ IF /\ graf_frame = None
          /\ \E i \in 1..Len(hip_datas) :
                side_delta(hip_datas[i], results[i]) # None
       THEN /\ pc' = "raised"
            /\ hist' = [hist EXCEPT !.stages = Append(@, "set_side")]
            /\ UNCHANGED <<hip_datas, results, graf_frame, errors, critical,
                           side_runs>>
       ELSE \E out \in {set_side(hip_datas, results, graf_frame,
                                   allow_flipping)} :
                /\ hip_datas' = out.hds
                /\ results' = out.res
                /\ graf_frame' = out.graf_frame
                /\ errors' = errors \o out.errs
                /\ critical' = (critical \/ out.crit)
                /\ side_runs' = side_runs + 1
                /\ hist' = [hist EXCEPT
                      !.order0 = IF side_runs = 0 THEN Ids(hip_datas) ELSE @,
                      !.graf0 = IF side_runs = 0 THEN graf_frame ELSE @,
                      !.flips = Append(@, out.flip),
                      !.stages = Append(@, "set_side"),
                      !.side = [front |-> out.front, back |-> out.back,
                                errs |-> out.errs,
                                crit_before |-> critical,
                                assigned |-> out.assigned,
                                front_side |-> out.front_side,
                                back_side |-> out.back_side,
                                hds_before |-> hip_datas,
                                res_before |-> results,
                                graf_before |-> graf_frame,
                                crit |-> out.crit]]
                /\ pc' = (IF pc = "side" THEN NextStage(pc) ELSE pc)
    /\ UNCHANGED <<grafs_hip, metrics, allow_flipping>>

\* ------------------------------------------------------------- Metric3D
\* a Metric3D that averages all three components, zero or not
Metric3D_all_components(name, post, graf, ant) ==
    [name |-> name, post |-> post, graf |-> graf, ant |-> ant,
     full |-> 10 * RoundDiv(post + graf + ant, 30)]

\* Metric3D.__init__ without full: the mean of the components above 0
Metric3D(name, post, graf, ant) ==
    LET average_calc == SelectSeq(<<post, graf, ant>>, LAMBDA v : v > 0)
    IN  [name |-> name, post |-> post, graf |-> graf, ant |-> ant,
         full |-> IF Len(average_calc) = 0 THEN 0
                  ELSE 10 * RoundDiv(SumSeq(average_calc),
                                     10 * Len(average_calc))]

\* Metric3D.__init__ with full given: the components become "N/A"
Metric3DFull(name, full) ==
    [name |-> name, post |-> NA, graf |-> NA, ant |-> NA, full |-> full]

\* ------------------------------------------------------ surface and sphere
\* frames that contribute points to get_illium_mesh
MeshFrames(hds, res) ==
    {i \in 1..Len(hds) : res[i].illium /\ has_apex(hds[i])}

\* Delaunay triangulation in the (x, z) plane needs points at two z values
mesh_possible(hds, res) ==
    Cardinality({hds[i].frame_no : i \in MeshFrames(hds, res)}) >= 2

\* what the surface gives get_aca: the (side, zone) buckets that hold no
\* triangle, and the angle between the two average normals of each zone
ZoneAngle == [z \in {"POST", "ANT", "GRAF"} |->
                 IF z = "POST" THEN 50000
                 ELSE IF z = "GRAF" THEN 60000 ELSE 70010]

EmptyChoices ==
    {E \in SUBSET Buckets : Cardinality(E) <= MaxEmptyBuckets}

\* one iteration of the zone loop of get_aca: acc is the pair
\* <<aca_angles, recorded_error>>
aca_zone_step(acc, side, empty) ==
    IF <<"LEFT", side>> \in empty \/ <<"RIGHT", side>> \in empty
    THEN <<[acc[1] EXCEPT ![side] = 0],
           IF side = "POST" THEN "Not enough Posterior to calculate ACA."
           ELSE IF side = "ANT" THEN "Not enough Anterior to calculate ACA."
           ELSE "Not enough Central to calculate ACA.">>
    ELSE <<[acc[1] EXCEPT ![side] = ZoneAngle[side]], "">>

RECURSIVE aca_zone_loop(_, _, _)
aca_zone_loop(acc, k, empty) ==
    IF k > Len(SideAll) THEN acc
    ELSE aca_zone_loop(aca_zone_step(acc, SideAll[k], empty), k + 1, empty)

\* get_aca: the angle of every zone and the single message it returns
get_aca(empty) ==
    LET out == aca_zone_loop(<<[z \in {"POST", "ANT", "GRAF"} |-> 0], "">>,
                             1, empty)
    IN  [aca |-> out[1], msg |-> out[2]]

\* a z that multiplies the frame number by the configured spacing itself
frame_z_unscaled(frame_no, n) == frame_no * z_gap

\* the z of a frame in a volume of n frames, in thousandths:
\* frame_no * z_gap with z_gap = config.hip.z_gap * (200 / len(hip_datas))
frame_z(frame_no, n) == frame_no * ((z_gap * 200) \div n)

\* a sphere fitter that takes the last of the frames with coverage landmarks
femoral_frame_last(hds) ==
    LET hips_of_interest == SelectSeq(hds, LAMBDA h : h.landmarks = "cov")
    IN  IF Len(hips_of_interest) = 0 THEN None
        ELSE hips_of_interest[Len(hips_of_interest)].frame_no

\* get_femoral_sphere: the frame_no giving the sphere centre's z, or None
femoral_frame(hds) ==
    LET hips_of_interest == SelectSeq(hds, LAMBDA h : h.landmarks = "cov")
        middle_frame ==
            FloorDiv(hips_of_interest[1].frame_no
                     + hips_of_interest[Len(hips_of_interest)].frame_no, 2)
        \* min(..., key=distance) is the first maximum of the negated distance
        closeness == [k \in 1..Len(hips_of_interest) |->
                        0 - Abs(hips_of_interest[k].frame_no - middle_frame)]
    IN  IF Len(hips_of_interest) = 0 THEN None
        ELSE hips_of_interest[FirstMax(closeness)].frame_no

\* the centroids of the surface's triangles: Delaunay triangulation in the
\* (x, z) plane joins the points of neighbouring z levels, so a triangle has
\* two vertices on one level and one on the next, and its centroid lies a
\* third of the way from the one to the other; lo and hi are the frame
\* numbers of the two levels
triangle_centroids(hds, res) ==
    LET n == Len(hds)
        nos == {hds[i].frame_no : i \in MeshFrames(hds, res)}
        adjacent == {p \in nos \X nos :
                        /\ p[1] < p[2]
                        /\ ~\E c \in nos : p[1] < c /\ c < p[2]}
    IN  UNION {{[lo |-> p[1], hi |-> p[2],
                 z |-> (2 * frame_z(p[1], n) + frame_z(p[2], n)) \div 3],
                [lo |-> p[1], hi |-> p[2],
                 z |-> (frame_z(p[1], n) + 2 * frame_z(p[2], n)) \div 3]} :
               p \in adjacent}

\* the zone get_aca gives a triangle with centroid z cz, under either value
\* of config.hip.aca_split
aca_third(aca_split, cz, min_z, max_z, grafs_z) ==
    IF aca_split = "THIRDS"
    THEN IF 3 * (cz - min_z) < max_z - min_z THEN "POST"
         ELSE IF 3 * (cz - min_z) < 2 * (max_z - min_z) THEN "GRAF"
         ELSE "ANT"
    ELSE \* margin = (max_z - min_z) * 0.15
         IF 100 * Abs(cz - grafs_z) < 15 * (max_z - min_z) THEN "GRAF"
         ELSE IF 100 * cz < 100 * grafs_z - 15 * (max_z - min_z) THEN "POST"
         ELSE "ANT"

\* the coverage landmarks of a frame, in thousandths of a pixel: point_D
\* below and point_d above the femoral-head centre, on the vertical through
\* it (the m == 0 branch of find_cov_landmarks, taken when the left-apex line
\* is level); the extended radius differs from frame to frame
point_D(hip) == <<200000 + 1000 * hip.id, 300000 + 20000 + 2000 * hip.id>>
point_d(hip) == <<200000 + 1000 * hip.id, 300000 - 20000 - 2000 * hip.id>>

\* a radius of 1.05 times half the diameter
femoral_radius_of_half(diameter) == (diameter * 105) \div 200

\* radius = (diameter / 2) + (diameter * 0.05)
femoral_radius(diameter) == diameter \div 2 + (diameter * 5) \div 100

\* get_femoral_sphere: the centre and the radius of the sphere fitted to the
\* frame femoral_frame picks (found is FALSE when it returns None, None)
get_femoral_sphere(hds) ==
    LET fem_no == femoral_frame(hds)
        middle_hip == hds[CHOOSE i \in 1..Len(hds) :
                            /\ hds[i].frame_no = fem_no
                            /\ hds[i].landmarks = "cov"]
        D == point_D(middle_hip)
        d == point_d(middle_hip)
        \* the norm of a vertical vector
        diameter == IF D[1] = d[1] THEN Abs(D[2] - d[2]) ELSE None
    IN  IF fem_no = None
        THEN [found |-> FALSE, center |-> <<0, 0, 0>>, radius |-> 0,
              point_D |-> <<0, 0>>, point_d |-> <<0, 0>>]
        ELSE [found |-> TRUE,
              center |-> <<D[1] + (d[1] - D[1]) \div 2,
                           D[2] + (d[2] - D[2]) \div 2,
                           frame_z(middle_hip.frame_no, Len(hds))>>,
              radius |-> femoral_radius(diameter),
              point_D |-> D, point_d |-> d]

\* a centering ratio left in frame units, not divided by the z range
get_centering_ratio_unnormalised(hds, res, fem_no) ==
    LET nos == {hds[i].frame_no : i \in MeshFrames(hds, res)}
        max_no == CHOOSE x \in nos : \A y \in nos : y <= x
    IN  1000 * Abs(fem_no - max_no)

\* get_centering_ratio; the z of a frame is proportional to its frame_no, so
\* the ratio is taken over frame numbers (filter_humphrey with beta = 1
\* returns every vertex to alpha * original + (1 - alpha) * previous, which
\* leaves the z range of the surface where it was)
get_centering_ratio(hds, res, fem_no) ==
    LET nos == {hds[i].frame_no : i \in MeshFrames(hds, res)}
        max_no == CHOOSE x \in nos : \A y \in nos : y <= x
        min_no == CHOOSE x \in nos : \A y \in nos : y >= x
    IN  10 * RoundDiv(100 * Abs(fem_no - max_no), max_no - min_no)

\* ------------------------------------------- get_3d_metrics_and_visuals
HipById(hds, id) == hds[CHOOSE i \in 1..Len(hds) : hds[i].id = id]

\* side values that keep the zero entries
SideValues_with_zeros(hds, name, side) ==
    LET sel == SelectSeq(hds, LAMBDA h : h.side = side)
    IN  [k \in 1..Len(sel) |-> get_metric(sel[k], name)]

\* post_values / ant_values: the non-zero values of the frames of one side
SideValues(hds, name, side) ==
    LET sel == SelectSeq(hds, LAMBDA h : h.side = side
                                         /\ get_metric(h, name) # 0)
    IN  [k \in 1..Len(sel) |-> get_metric(sel[k], name)]

OrZero(values) == IF Len(values) = 0 THEN <<0>> ELSE values

\* the central value of a metric: guarded by the truth value of graf_frame
graf_value_of(hds, graf, graf_id, name) ==
    IF graf # None /\ graf # 0
    THEN get_metric(HipById(hds, graf_id), name) ELSE 0

HasMetric(ms, name) == \E k \in 1..Len(ms) : ms[k].name = name

\* the aggregation loop over config.hip.measurements
RECURSIVE aggregate(_, _, _, _, _)
aggregate(ms, k, hds, graf, graf_id) ==
    IF k > Len(Measurements) THEN ms
    ELSE LET name == Measurements[k]
         IN  IF HasMetric(ms, name)
             THEN aggregate(ms, k + 1, hds, graf, graf_id)
             ELSE aggregate(
                    Append(ms, Metric3D(name,
                        rmean(OrZero(SideValues(hds, name, "POST"))),
                        graf_value_of(hds, graf, graf_id, name),
                        rmean(OrZero(SideValues(hds, name, "ANT"))))),
                    k + 1, hds, graf, graf_id)

\* a missing surface that is not written to the log
no_mesh_errors_silent(has_mesh) == <<>>

\* the diagnostic of a missing surface
no_mesh_errors(has_mesh) ==
    IF has_mesh THEN <<>> ELSE <<"No Illium Mesh.">>

\* a get_aca that is called whether or not there is a surface
aca_called_always(has_mesh) == TRUE

\* get_aca is called only under `if illium_mesh:`
aca_called(has_mesh) == has_mesh

\* get_aca raises AttributeError without a surface (compute_vertex_normals
\* on None) and, with the zones split around the graf frame, without a
\* grafs_hip (graf_hip.frame_no on None)
aca_raises(has_mesh, graf_id) == ~has_mesh \/ graf_id = None

\* mesh_ok: triangulation succeeded; empty: the buckets without triangles
get_3d_metrics_and_visuals(hds, res, graf, graf_id, ms0, mesh_ok, empty) ==
    LET has_mesh == mesh_ok /\ mesh_possible(hds, res)
        n == Len(hds)
        errs1 == no_mesh_errors(has_mesh)
        fem_no == femoral_frame(hds)
        raised == aca_called(has_mesh) /\ aca_raises(has_mesh, graf_id)
        aca_out == get_aca(empty)
        errs2 == IF has_mesh THEN <<aca_out.msg>> ELSE <<>>
        c_ratio == IF fem_no # None /\ has_mesh
                   THEN get_centering_ratio(hds, res, fem_no) ELSE 0
        ms1 == IF has_mesh
               THEN Append(ms0, Metric3D(ACA, aca_out.aca["POST"],
                                         aca_out.aca["GRAF"],
                                         aca_out.aca["ANT"]))
               ELSE ms0
        ms2 == IF c_ratio # 0
               THEN Append(ms1, Metric3DFull(CENTERING_RATIO, c_ratio))
               ELSE ms1
        ms3 == aggregate(ms2, 1, hds, graf, graf_id)
        no_post == \A k \in 1..Len(ms3) : ms3[k].post = 0
        no_ant == \A k \in 1..Len(ms3) : ms3[k].ant = 0
        errs3 == (IF no_post THEN <<"No Posterior values recorded.">> ELSE <<>>)
                 \o (IF no_ant THEN <<"No Anterior values recorded.">> ELSE <<>>)
        zs == [fem_no |-> fem_no,
               sphere |-> get_femoral_sphere(hds),
               centroids |-> IF has_mesh THEN triangle_centroids(hds, res)
                             ELSE {},
               sphere_z |-> IF fem_no = None THEN None
                            ELSE frame_z(fem_no, n),
               surface_z |-> [i \in 1..n |->
                                IF i \in MeshFrames(hds, res)
                                THEN frame_z(hds[i].frame_no, n) ELSE None],
               grafs_z |-> IF has_mesh /\ graf_id # None
                           THEN frame_z(HipById(hds, graf_id).frame_no, n)
                           ELSE None]
    IN  IF raised
        THEN [metrics |-> ms0, errs |-> errs1, crit |-> ~has_mesh,
              has_mesh |-> has_mesh,
              aca |-> [z \in {"POST", "ANT", "GRAF"} |-> 0],
              c_ratio |-> 0, raised |-> TRUE, zs |-> zs]
        ELSE [metrics |-> ms3, errs |-> errs1 \o errs2 \o errs3,
              crit |-> (~has_mesh \/ no_post \/ no_ant),
              has_mesh |-> has_mesh,
              aca |-> IF has_mesh THEN aca_out.aca
                      ELSE [z \in {"POST", "ANT", "GRAF"} |-> 0],
              c_ratio |-> c_ratio, raised |-> FALSE, zs |-> zs]

Get3DMetricsAndVisuals ==
    /\ pc = "metrics"
    /\ \E mesh_ok \in BOOLEAN, empty \in EmptyChoices :
          /\ (~(mesh_ok /\ mesh_possible(hip_datas, results)) => empty = {})
          /\ \E out \in {get_3d_metrics_and_visuals(hip_datas, results,
                            graf_frame, grafs_hip, metrics, mesh_ok, empty)} :
                 /\ metrics' = out.metrics
                 /\ errors' = errors \o out.errs
                 /\ critical' = (critical \/ out.crit)
                 /\ hist' = [hist EXCEPT
                       !.mesh = [has_mesh |-> out.has_mesh, empty |-> empty,
                                 aca |-> out.aca, c_ratio |-> out.c_ratio,
                                 errs |-> out.errs,
                                 crit_before |-> critical,
                                 hds_before |-> hip_datas,
                                 zs |-> out.zs],
                       !.stages = Append(@, "get_3d_metrics_and_visuals")]
                 /\ pc' = (IF out.raised THEN "raised" ELSE NextStage(pc))
    /\ UNCHANGED <<hip_datas, results, graf_frame, grafs_hip, allow_flipping,
                   side_runs>>

\* ------------------------------------------------------------------ Init
\* what the landmark extractor can find in one frame, as the tuple
\* <<landmarks, alpha, coverage, flat, close, mid_y>>
FrameInputs ==
    \* no landmark found: alpha and coverage are both 0
    { <<"empty", 0, 0, TRUE, TRUE, 0>> }
    \cup
    \* alpha landmarks found but the frame fails one validity rule
    { <<"alpha", 15000, 0, TRUE, FALSE, 0>>,
      <<"alpha", 60000, 0, FALSE, FALSE, 0>>,
      <<"alpha", 60000, 0, TRUE, TRUE, 0>> }
    \cup
    \* a frame that passes every validity rule
    { <<IF c = 0 THEN "alpha" ELSE "cov", a, c, TRUE, FALSE, dl>> :
        a \in GoodAlphas, c \in Coverages, dl \in Deltas }
    \cup
    \* a valid frame with coverage landmarks whose coverage comes out as 0
    \* (find_coverage: mid_cov_point below point_D)
    { <<"cov", 60000, 0, TRUE, FALSE, 0>> }

\* a frame as landmarks_2_metrics_us leaves it: metrics for every configured
\* measurement, frame_no equal to the position
RawFrame(n, in) ==
    [id |-> n, frame_no |-> n, has_metrics |-> TRUE,
     value |-> [m \in MetricNames |-> IF m = ALPHA THEN in[2] ELSE in[3]],
     landmarks |-> in[1], flat |-> in[4], close |-> in[5], mid_y |-> in[6],
     side |-> "None"]

\* the segmentation result of a frame: an illium object exists whenever the
\* landmarks were derived from one; closest_y is the y of its midline point
\* nearest to the left-apex midpoint
ResultOf(hip) ==
    [id |-> hip.id, illium |-> has_apex(hip), closest_y |-> 0, seg_score |-> 0]

Init ==
    /\ \E n \in 1..MaxFrames : \E in \in [1..n -> FrameInputs] :
          hip_datas = [i \in 1..n |-> RawFrame(i - 1, in[i])]
    /\ results = [i \in 1..Len(hip_datas) |-> ResultOf(hip_datas[i])]
    /\ graf_frame = None
    /\ grafs_hip = None
    /\ errors = <<>>
    /\ critical = FALSE
    /\ metrics = <<>>
    /\ allow_flipping \in BOOLEAN
    /\ pc = "validate"
    /\ side_runs = 0
    /\ hist = [keep |-> <<>>, raw |-> <<>>, order0 |-> <<>>, graf0 |-> None,
               flips |-> <<>>, stages |-> <<>>,
               side |-> [front |-> 0, back |-> 0, errs |-> <<>>,
                         crit_before |-> FALSE, assigned |-> FALSE,
                         front_side |-> <<>>, back_side |-> <<>>,
                         hds_before |-> <<>>, res_before |-> <<>>,
                         graf_before |-> None, crit |-> FALSE],
               mesh |-> [has_mesh |-> FALSE, empty |-> {},
                         aca |-> [z \in {"POST", "ANT", "GRAF"} |-> 0],
                         c_ratio |-> 0, errs |-> <<>>,
                         crit_before |-> FALSE, hds_before |-> <<>>,
                         zs |-> [fem_no |-> None, centroids |-> {},
                                 sphere |-> [found |-> FALSE,
                                             center |-> <<0, 0, 0>>,
                                             radius |-> 0,
                                             point_D |-> <<0, 0>>,
                                             point_d |-> <<0, 0>>],
                                 sphere_z |-> None,
                                 surface_z |-> <<>>, grafs_z |-> None]]]

Next == HandleBadFrames \/ FindGrafPlane \/ SetSide \/ Get3DMetricsAndVisuals

Spec == Init /\ [][Next]_vars
\* ============================================================ properties
Positions == 1..Len(hip_datas)
NumTrue(b) == Cardinality({i \in 1..Len(b) : b[i]})
MarkedRaw == {i \in 1..Len(hist.raw) : marked(hist.raw[i])}
Contiguous(S) == \A i \in S, j \in S : \A k \in i..j : k \in S
MetricNamed(name) == metrics[CHOOSE k \in 1..Len(metrics) : metrics[k].name = name]
InErrors(msg) == \E k \in 1..Len(errors) : errors[k] = msg
\* x is the value nearest to sum / cnt among the multiples of 10
NearestHundredth(x, sum, cnt) ==
    x % 10 = 0 /\ 2 * Abs(x * cnt - sum) <= 10 * cnt

\* C1: once find_graf_plane has set graf_frame, and after every run of
\* set_side, 0 <= graf_frame < number of frames of the volume.
C1_GrafFrameIndexesFrame ==
    graf_frame # None => (0 <= graf_frame /\ graf_frame < Len(hip_datas))

\* C2 (as claimed): after two successive runs of set_side the frame order and
\* graf_frame are those the volume had before the first run.
C2_TwoRunsRestore ==
    (side_runs = 2 /\ pc # "raised") =>
        (Ids(hip_datas) = hist.order0 /\ graf_frame = hist.graf0)

\* C2 (amended): the swap is its own inverse (undoing it on the swapped
\* volume gives back the original order and graf_frame), but set_side is not:
\* a run that follows a run never swaps, so after any number of runs the
\* original order and graf_frame are in place exactly when the first run did
\* not swap.
C2_SwapOnceOnly ==
    side_runs >= 1 =>
        /\ \A k \in 2..Len(hist.flips) : ~hist.flips[k]
        /\ (Ids(hip_datas) = hist.order0 /\ graf_frame = hist.graf0)
               <=> ~hist.flips[1]
        /\ hist.flips[1] =>
              /\ Reverse(Ids(hip_datas)) = hist.order0
              /\ swapped_graf_frame(Len(hip_datas), graf_frame) = hist.graf0

C2_Witness ==
    side_runs = 2 /\ hist.flips[1] /\ Len(hip_datas) >= 2

\* C3 (as claimed): the keep-mask of remove_outliers is one contiguous run of
\* True whose length is the number of marked frames.
C3_KeepOneRun ==
    pc # "validate" =>
        /\ Contiguous({i \in 1..Len(hist.keep) : hist.keep[i]})
        /\ NumTrue(hist.keep) = Cardinality(MarkedRaw)

\* C3 (amended): the keep-mask holds exactly the marked frames that lie inside
\* one window of total consecutive frames, total being the number of marked
\* frames; it has total entries (and is then one contiguous run) exactly when
\* the marked frames are themselves contiguous.
C3_KeepMarkedInWindow ==
    pc # "validate" =>
        LET total == Cardinality(MarkedRaw)
            n == Len(hist.keep)
        IN  /\ n = Len(hist.raw)
            /\ \E w \in 0..(n - total) :
                  \A i \in 1..n :
                     hist.keep[i] <=> (i \in MarkedRaw /\ w < i /\ i <= w + total)
            /\ NumTrue(hist.keep) = total <=> Contiguous(MarkedRaw)

C3_Witness ==
    /\ pc = "graf"
    /\ NumTrue(hist.keep) >= 1
    /\ NumTrue(hist.keep) < Cardinality(MarkedRaw)

\* the frames of one side whose value of a metric is not 0
SideFrames(name, side) ==
    {i \in Positions : hip_datas[i].side = side
                       /\ get_metric(hip_datas[i], name) # 0}
SideSum(name, side) ==
    SumSeq(SideValues(hip_datas, name, side))

\* C4 (as claimed): the posterior (anterior) value of a per-frame metric is the
\* mean of the non-zero values of the posterior (anterior) frames, 0 if none.
C4_SideValueIsMean ==
    pc = "done" =>
        \A k \in 1..Len(Measurements) :
           LET name == Measurements[k]
               m == MetricNamed(name)
           IN  /\ m.post * Cardinality(SideFrames(name, "POST"))
                     = SideSum(name, "POST")
               /\ m.ant * Cardinality(SideFrames(name, "ANT"))
                     = SideSum(name, "ANT")
               /\ SideFrames(name, "POST") = {} => m.post = 0
               /\ SideFrames(name, "ANT") = {} => m.ant = 0

\* C4 (amended): the posterior (anterior) value of a per-frame metric is the
\* mean, rounded to two decimals, of the non-zero values of the posterior
\* (anterior) frames, and 0 if there is none; zero values never enter the mean.
C4_SideValueIsRoundedMean ==
    pc = "done" =>
        \A k \in 1..Len(Measurements) :
           LET name == Measurements[k]
               m == MetricNamed(name)
               np == Cardinality(SideFrames(name, "POST"))
               na == Cardinality(SideFrames(name, "ANT"))
           IN  /\ IF np = 0 THEN m.post = 0
                  ELSE NearestHundredth(m.post,
                          SumSeq([j \in 1..Len(hip_datas) |->
                             IF j \in SideFrames(name, "POST")
                             THEN hip_datas[j].value[name] ELSE 0]), np)
               /\ IF na = 0 THEN m.ant = 0
                  ELSE NearestHundredth(m.ant,
                          SumSeq([j \in 1..Len(hip_datas) |->
                             IF j \in SideFrames(name, "ANT")
                             THEN hip_datas[j].value[name] ELSE 0]), na)

\* a posterior mean that needed rounding, next to a posterior frame whose
\* value is 0
C4_Witness ==
    /\ pc = "done"
    /\ SideFrames(COVERAGE, "POST") # {}
    /\ MetricNamed(COVERAGE).post = 500
    /\ \E i \in Positions : /\ hip_datas[i].side = "POST"
                            /\ hip_datas[i].has_metrics
                            /\ hip_datas[i].value[COVERAGE] = 0
    /\ SideFrames(ALPHA, "ANT") # {}

\* C5: whenever graf_frame is set to a valid index, the central value of each
\* configured per-frame metric is the value of the frame at that index.
C5_CentralIsGrafFrameValue ==
    (pc = "done" /\ graf_frame # None
       /\ graf_frame >= 0 /\ graf_frame < Len(hip_datas)) =>
        \A k \in 1..Len(Measurements) :
           MetricNamed(Measurements[k]).graf
              = get_metric(hip_datas[graf_frame + 1], Measurements[k])

\* the mean of the positive components of a metric, rounded to two decimals
FullIsRoundedMean(m) ==
    LET pos == {c \in {"post", "graf", "ant"} :
                  (IF c = "post" THEN m.post
                   ELSE IF c = "graf" THEN m.graf ELSE m.ant) > 0}
        sum == (IF m.post > 0 THEN m.post ELSE 0)
               + (IF m.graf > 0 THEN m.graf ELSE 0)
               + (IF m.ant > 0 THEN m.ant ELSE 0)
    IN  IF pos = {} THEN m.full = 0
        ELSE NearestHundredth(m.full, sum, Cardinality(pos))

\* full was handed to the metric, not derived from its components
FullIsDirect(m) == m.post = NA /\ m.graf = NA /\ m.ant = NA

\* C6 (as claimed): full of the mesh-derived metrics (ACA, centering ratio) is
\* a value computed directly from the 3D data; full of every other metric is
\* the mean of its components that are not undetermined.
C6_MeshMetricsFullDirect ==
    pc = "done" =>
        \A k \in 1..Len(metrics) :
           IF metrics[k].name \in {ACA, CENTERING_RATIO}
           THEN FullIsDirect(metrics[k])
           ELSE FullIsRoundedMean(metrics[k])

\* C6 (amended): full of the centering ratio is the directly computed ratio;
\* full of the coverage angle (ACA), as of every other metric, is the mean,
\* rounded to two decimals, of those of its posterior, central and anterior
\* components that are above 0, and 0 when none is.
C6_OnlyRatioFullDirect ==
    pc = "done" =>
        \A k \in 1..Len(metrics) :
           IF metrics[k].name = CENTERING_RATIO
           THEN FullIsDirect(metrics[k]) /\ metrics[k].full = hist.mesh.c_ratio
           ELSE FullIsRoundedMean(metrics[k])

C6_Witness ==
    /\ pc = "done"
    /\ HasMetric(metrics, CENTERING_RATIO)
    /\ HasMetric(metrics, ACA)
    /\ MetricNamed(ACA).post = 0
    /\ MetricNamed(ACA).full > 0
    /\ MetricNamed(ALPHA).graf = 0
    /\ MetricNamed(ALPHA).full > 0

\* the frames handle_bad_frames has emptied
Emptied ==
    {i \in 1..Len(hist.raw) : hist.raw[i] # hip_datas[i]}

ZoneMessage(z) ==
    IF z = "POST" THEN "Not enough Posterior to calculate ACA."
    ELSE IF z = "ANT" THEN "Not enough Anterior to calculate ACA."
    ELSE "Not enough Central to calculate ACA."

ZoneEmpty(z) ==
    <<"LEFT", z>> \in hist.mesh.empty \/ <<"RIGHT", z>> \in hist.mesh.empty

\* C7: no rejection is silent: when handle_bad_frames has emptied a frame the
\* diagnostics log has an entry, and every undetermined zone angle has its
\* diagnostic in the log.
C7_RejectionsLogged ==
    /\ (pc = "graf" /\ Emptied # {}) => Len(errors) > 0
    /\ (pc = "done" /\ hist.mesh.has_mesh) =>
          \A z \in {"POST", "ANT", "GRAF"} :
             hist.mesh.aca[z] = 0 => InErrors(ZoneMessage(z))

\* C8: a zone with an empty medial or lateral bucket gets angle 0 and a
\* diagnostic naming the zone in the log, whatever the other zones contain,
\* and the diagnostic does not set critical.
C8_EmptyBucketDiagnosed ==
    (pc = "done" /\ hist.mesh.has_mesh) =>
        \A z \in {"POST", "ANT", "GRAF"} :
           ZoneEmpty(z) =>
              /\ hist.mesh.aca[z] = 0
              /\ \E k \in 1..Len(hist.mesh.errs) :
                    hist.mesh.errs[k] = ZoneMessage(z)

\* exactly one half had no sample in the last run of set_side
OneHalfEmpty ==
    /\ pc = "metrics" /\ side_runs >= 1
    /\ (hist.side.front = 0) # (hist.side.back = 0)

NoSideLogged ==
    \E k \in 1..Len(hist.side.errs) :
       hist.side.errs[k] = (IF hist.side.front = 0 THEN "No Front Side."
                            ELSE "No Back Side.")

\* C9 (as claimed): when exactly one half has no valid sample, set_side
\* appends the "no side" diagnostic of that half and does not set critical.
C9_NoSideNotCritical ==
    OneHalfEmpty =>
        /\ NoSideLogged
        /\ ~hist.side.crit_before => ~critical

\* C9 (amended): when exactly one half has no valid sample, set_side appends
\* the "no side" diagnostic of that half and sets critical.
C9_NoSideCritical ==
    OneHalfEmpty => (NoSideLogged /\ critical)

C9_Witness ==
    OneHalfEmpty /\ ~hist.side.crit_before /\ hist.side.front = 0

\* the frames find_graf_plane scores: those whose metrics are all non-zero,
\* or every frame when there is none
Scored ==
    IF \E i \in Positions : good_graf(hip_datas[i])
    THEN {i \in Positions : good_graf(hip_datas[i])}
    ELSE Positions

LastStage == IF hist.stages = <<>> THEN "none" ELSE hist.stages[Len(hist.stages)]

\* get_3d_metrics_and_visuals has run and found no surface
MeshFailed ==
    LastStage = "get_3d_metrics_and_visuals" /\ ~hist.mesh.has_mesh

\* C11: when surface reconstruction fails, get_3d_metrics_and_visuals raises
\* no error, logs the critical diagnostic "No Illium Mesh.", produces neither
\* a coverage-angle nor a centering-ratio value, leaves the frames as they
\* were and still aggregates every configured per-frame metric.
C11_MeshFailureKeepsFrameMetrics ==
    MeshFailed =>
        /\ pc = "done"
        /\ hist.mesh.errs # <<>> /\ hist.mesh.errs[1] = "No Illium Mesh."
        /\ critical
        /\ ~HasMetric(metrics, ACA)
        /\ ~HasMetric(metrics, CENTERING_RATIO)
        /\ hist.mesh.c_ratio = 0
        /\ hip_datas = hist.mesh.hds_before
        /\ Len(metrics) = Len(Measurements)
        /\ \A k \in 1..Len(Measurements) :
              /\ HasMetric(metrics, Measurements[k])
              /\ MetricNamed(Measurements[k]) =
                    Metric3D(Measurements[k],
                        rmean(OrZero(SideValues(hip_datas, Measurements[k],
                                                "POST"))),
                        graf_value_of(hip_datas, graf_frame, grafs_hip,
                                      Measurements[k]),
                        rmean(OrZero(SideValues(hip_datas, Measurements[k],
                                                "ANT"))))

\* the triangulation failed although two frames gave surface points, and the
\* per-frame metrics have values on both sides
C11_Witness ==
    /\ MeshFailed
    /\ pc = "done"
    /\ mesh_possible(hip_datas, results)
    /\ MetricNamed(ALPHA).post > 0
    /\ MetricNamed(ALPHA).ant > 0

\* C12: a critical diagnostic never aborts the run: once critical is set no
\* stage raises, the run stands before one of the remaining stages until it is
\* done, and once get_3d_metrics_and_visuals has run it has returned the
\* final metric set.
C12_CriticalNeverAborts ==
    critical =>
        /\ pc \in {"graf", "side", "metrics", "done"}
        /\ LastStage = "get_3d_metrics_and_visuals" =>
              /\ pc = "done"
              /\ \A k \in 1..Len(Measurements) :
                    HasMetric(metrics, Measurements[k])

\* find_graf_plane set critical and left graf_frame unset, and set_side and
\* get_3d_metrics_and_visuals still ran to the end
C12_Witness ==
    /\ pc = "done"
    /\ InErrors("Max Alpha is 0.")
    /\ graf_frame = None
    /\ hist.side.crit_before
    /\ hist.mesh.crit_before
    /\ Len(hist.stages) = 4
    /\ Len(metrics) = Len(Measurements)

\* C14: the centering ratio get_centering_ratio returns lies in [0, 1]
\* (0 to 1000 thousandths), and so does the value in the final metric set.
C14_RatioInUnitInterval ==
    pc = "done" =>
        /\ 0 <= hist.mesh.c_ratio /\ hist.mesh.c_ratio <= 1000
        /\ HasMetric(metrics, CENTERING_RATIO) =>
              /\ 0 < MetricNamed(CENTERING_RATIO).full
              /\ MetricNamed(CENTERING_RATIO).full <= 1000

\* a sphere strictly inside the depth range of the surface
C14_Witness ==
    /\ pc = "done"
    /\ HasMetric(metrics, CENTERING_RATIO)
    /\ MetricNamed(CENTERING_RATIO).full = 500

\* the frame numbers of the frames with coverage landmarks
CovFrames ==
    {hip_datas[i].frame_no : i \in {j \in Positions :
                                      hip_datas[j].landmarks = "cov"}}

\* the frame number of the canonical frame (the grafs_hip object)
CanonicalNo == HipById(hip_datas, grafs_hip).frame_no

\* exactly two frames carry coverage landmarks, one before and one after the
\* canonical frame
TwoStraddle ==
    /\ pc = "done"
    /\ grafs_hip # None
    /\ Cardinality(CovFrames) = 2
    /\ \E a \in CovFrames, b \in CovFrames :
          a < CanonicalNo /\ CanonicalNo < b

\* C15 (as claimed): with exactly two frames carrying coverage landmarks, one
\* before and one after the canonical frame, the z of the sphere centre is the
\* z of the canonical frame.
C15_SphereAtCanonicalZ ==
    TwoStraddle =>
        hist.mesh.zs.sphere_z = frame_z(CanonicalNo, Len(hip_datas))

\* C15 (amended): with exactly two frames carrying coverage landmarks, the z
\* of the sphere centre is the z of the earlier of the two, wherever the
\* canonical frame lies.
C15_SphereAtEarlierFrame ==
    (pc = "done" /\ Cardinality(CovFrames) = 2) =>
        \E a \in CovFrames :
           /\ \A b \in CovFrames : a <= b
           /\ hist.mesh.zs.fem_no = a
           /\ hist.mesh.zs.sphere_z = frame_z(a, Len(hip_datas))

C15_Witness ==
    TwoStraddle /\ hist.mesh.zs.sphere_z # None

\* position (0-based) of the frame with the given frame_no
PositionOf(no) == (CHOOSE i \in Positions : hip_datas[i].frame_no = no) - 1

\* the z values the surface, the sphere and the zonal split were given, each
\* with the position of its frame
DerivedZ ==
    {<<hist.mesh.zs.surface_z[i], i - 1>> :
        i \in {j \in 1..Len(hist.mesh.zs.surface_z) :
                  hist.mesh.zs.surface_z[j] # None}}
    \cup (IF hist.mesh.zs.sphere_z = None THEN {}
          ELSE {<<hist.mesh.zs.sphere_z, PositionOf(hist.mesh.zs.fem_no)>>})
    \cup (IF hist.mesh.zs.grafs_z = None THEN {}
          ELSE {<<hist.mesh.zs.grafs_z, PositionOf(CanonicalNo)>>})

\* C16 (as claimed): every z derived for frame i is i * z_gap, z_gap being the
\* configured spacing.
C16_FrameZIsIndexTimesGap ==
    pc = "done" => \A zi \in DerivedZ : zi[1] = zi[2] * z_gap

\* z is i * z_gap * 200 / n up to the truncation of the thousandths
ScaledZ(z, i, n) ==
    /\ z * n <= i * z_gap * 200
    /\ i * z_gap * 200 - z * n <= i * (n - 1)

\* C16 (amended): every z derived for frame i of a volume of n frames is
\* i * z_gap * (200 / n): the configured spacing is rescaled so that the volume
\* is 200 spacings deep whatever its number of frames.
C16_FrameZScaledByLength ==
    pc = "done" =>
        \A zi \in DerivedZ : ScaledZ(zi[1], zi[2], Len(hip_datas))

C16_Witness ==
    /\ pc = "done"
    /\ hist.mesh.has_mesh
    /\ hist.mesh.zs.sphere_z # None /\ hist.mesh.zs.sphere_z > 0
    /\ hist.mesh.zs.grafs_z # None /\ hist.mesh.zs.grafs_z > 0
    /\ Len(hip_datas) = 3

\* stage a has finished before any run of stage b starts
Precedes(a, b) ==
    \A k \in 1..Len(hist.stages) :
       hist.stages[k] = b => \E j \in 1..(k - 1) : hist.stages[j] = a

\* no stage runs after stage a
IsLast(a) ==
    \A k \in 1..Len(hist.stages) :
       hist.stages[k] = a => k = Len(hist.stages)

\* C17 (as claimed): the stages run in the order Frame Validator, Orientation
\* Corrector, Canonical Frame Selector, then the surface, sphere and metric
\* stages; none starts before its predecessor has finished.
C17_OrientationBeforeSelection ==
    /\ Precedes("handle_bad_frames", "set_side")
    /\ Precedes("set_side", "find_graf_plane")
    /\ Precedes("find_graf_plane", "get_3d_metrics_and_visuals")

\* C17 (amended): the stages run in the order Frame Validator, Canonical
\* Frame Selector, Orientation Corrector, then the surface, sphere and metric
\* stages; none starts before its predecessor has finished, and nothing runs
\* after the metric stage.
C17_SelectionBeforeOrientation ==
    /\ Precedes("handle_bad_frames", "find_graf_plane")
    /\ Precedes("find_graf_plane", "set_side")
    /\ Precedes("set_side", "get_3d_metrics_and_visuals")
    /\ IsLast("get_3d_metrics_and_visuals")
    /\ pc = "done" => LastStage = "get_3d_metrics_and_visuals"

\* a whole run in which the orientation step swapped the volume
C17_Witness ==
    /\ pc = "done"
    /\ hist.stages = <<"handle_bad_frames", "find_graf_plane", "set_side",
                       "get_3d_metrics_and_visuals">>
    /\ hist.flips = <<TRUE>>

\* a component that holds a value: neither the sentinel 0 nor "N/A"
Determined(v) == v # 0 /\ v # NA

MeshLogged(msg) ==
    \E k \in 1..Len(hist.mesh.errs) : hist.mesh.errs[k] = msg

\* C18: after aggregation a critical diagnostic is in the log whenever no
\* metric of the final set has a determined posterior value, and likewise
\* whenever none has a determined anterior value.
C18_NoSideValueIsCritical ==
    pc = "done" =>
        /\ (\A k \in 1..Len(metrics) : ~Determined(metrics[k].post)) =>
              (MeshLogged("No Posterior values recorded.") /\ critical)
        /\ (\A k \in 1..Len(metrics) : ~Determined(metrics[k].ant)) =>
              (MeshLogged("No Anterior values recorded.") /\ critical)

\* the marked frames of the raw volume inside the window of the given length
\* that starts after w frames
MarkedInWindow(w, total) == {i \in MarkedRaw : w < i /\ i <= w + total}

\* the window remove_outliers should keep: the one with the most marked
\* frames, the lowest start among equals
BestStart(total) ==
    CHOOSE w \in 0..(Len(hist.raw) - total) :
       /\ \A v \in 0..(Len(hist.raw) - total) :
             Cardinality(MarkedInWindow(v, total))
                <= Cardinality(MarkedInWindow(w, total))
       /\ \A v \in 0..(w - 1) :
             Cardinality(MarkedInWindow(v, total))
                < Cardinality(MarkedInWindow(w, total))

\* C19: with total the number of marked frames, remove_outliers keeps exactly
\* the marked frames inside the window of length total that holds the most
\* marked frames, the lowest start index among windows with equal counts;
\* frames outside it and unmarked frames are excluded.
C19_KeepBestWindow ==
    pc # "validate" =>
        LET total == Cardinality(MarkedRaw)
        IN  /\ Len(hist.keep) = Len(hist.raw)
            /\ \A i \in 1..Len(hist.keep) :
                  hist.keep[i] <=> i \in MarkedInWindow(BestStart(total), total)

\* two windows hold equally many marked frames and the first one is kept
C19_Witness ==
    /\ pc = "graf"
    /\ Len(hist.raw) = 3
    /\ MarkedRaw = {1, 3}
    /\ hist.keep = <<TRUE, FALSE, FALSE>>

\* what the validity rules say of a raw frame, given its keep-mask entry
ShouldEmpty(hip, kept) ==
    \/ ~kept
    \/ \A m \in MetricNames : get_metric(hip, m) = 0
    \/ hip.landmarks = "None"
    \/ get_metric(hip, ALPHA) < 20000
    \/ get_metric(hip, ALPHA) > 100000
    \/ (has_apex(hip) /\ ~hip.flat)
    \/ (has_apex(hip) /\ hip.close)

\* C20: handle_bad_frames replaces a frame by an empty record with the same
\* frame_no exactly when the keep-mask excludes it, or all its metrics are 0,
\* or it has no landmarks, or its alpha is below 20 or above 100, or its
\* left-apex line is 10 degrees or more off horizontal, or its apex and right
\* landmarks are too close; every other frame is untouched and the number of
\* frames does not change.
C20_EmptiedExactlyWhenInvalid ==
    pc # "validate" =>
        /\ Len(hist.raw) = Len(hip_datas)
        /\ pc = "graf" =>
              \A i \in 1..Len(hist.raw) :
                 IF ShouldEmpty(hist.raw[i], hist.keep[i])
                 THEN /\ hip_datas[i] = EmptyHip(hist.raw[i].id,
                                                 hist.raw[i].frame_no)
                      /\ hip_datas[i].frame_no = hist.raw[i].frame_no
                 ELSE hip_datas[i] = hist.raw[i]

\* one frame goes for its alpha alone, one for its left-apex line alone, and
\* one stays
C20_Witness ==
    /\ pc = "graf"
    /\ \E i \in 1..Len(hist.raw) :
          /\ hist.keep[i] /\ hist.raw[i].value[ALPHA] = 15000
          /\ hip_datas[i] = EmptyHip(hist.raw[i].id, hist.raw[i].frame_no)
    /\ \E i \in 1..Len(hist.raw) :
          /\ hist.keep[i] /\ ~hist.raw[i].flat
          /\ ~hip_datas[i].has_metrics
    /\ \E i \in 1..Len(hist.raw) :
          hip_datas[i] = hist.raw[i] /\ hip_datas[i].has_metrics

\* ------------------------------------------------------------- set_side
\* set_side has returned at least once; hist.side describes its last call
SideRan == side_runs >= 1

Swapped == hist.flips[Len(hist.flips)]

SwapLogged ==
    \E k \in 1..Len(hist.side.errs) :
       hist.side.errs[k] = "Swapped Post and Ant"

\* the average offset of the back half exceeds that of the front half; a half
\* without samples counts as an average of 0
BackAverageGreater ==
    LET f == IF hist.side.front_side = <<>> THEN <<0>>
             ELSE hist.side.front_side
        b == IF hist.side.back_side = <<>> THEN <<0>>
             ELSE hist.side.back_side
    IN  SumSeq(b) * Len(f) > SumSeq(f) * Len(b)

FrameNos(hds) == [i \in 1..Len(hds) |-> hds[i].frame_no]

C22_NoSamplesSkipsCorrection ==
    (SideRan /\ hist.side.front = 0 /\ hist.side.back = 0) =>
        /\ hist.side.crit /\ critical
        /\ hist.side.errs
             = <<"No Front Side.", "No Back Side.", "No Side Detected.">>
        /\ \A k \in 1..Len(hist.side.errs) : InErrors(hist.side.errs[k])
        /\ hip_datas = hist.side.hds_before
        /\ results = hist.side.res_before
        /\ graf_frame = hist.side.graf_before
        /\ \A i \in Positions : hip_datas[i].side = "None"

\* set_side returned on a volume of several frames none of which has
\* landmarks
C22_Witness ==
    /\ SideRan /\ hist.side.front = 0 /\ hist.side.back = 0
    /\ Len(hip_datas) >= 2
    /\ \A i \in Positions : hip_datas[i].landmarks = "None"
    /\ InErrors("No Side Detected.")

\* ------------------------------------------------------ find_graf_plane
\* find_graf_plane has just returned
GrafPlaneRan == pc = "side"

AllNonZero(hip) ==
    hip.has_metrics /\ \A m \in MetricNames : hip.value[m] # 0

PerfectFrames == {i \in Positions : AllNonZero(hip_datas[i])}
MarkedFrames == {i \in Positions : marked(hip_datas[i])}

\* the score graf_frame_algo gives frame i when the frames of S are the
\* candidates
ScoreIn(S, i) ==
    LET max_alpha ==
            CHOOSE a \in {get_metric(hip_datas[j], ALPHA) : j \in S} :
               \A j \in S : get_metric(hip_datas[j], ALPHA) <= a
        illiums == {j \in Positions : get_metric(hip_datas[j], ALPHA) # 0}
        first == CHOOSE j \in illiums : \A k \in illiums : j <= k
        last == CHOOSE j \in illiums : \A k \in illiums : k <= j
    IN  graf_frame_algo(hip_datas[i], results[i], max_alpha,
                        hip_datas[first].frame_no, hip_datas[last].frame_no)

\* the position of the frame object held as grafs_hip
GrafPos == CHOOSE i \in Positions : hip_datas[i].id = grafs_hip

\* position g scores highest among the candidates S
BestIn(S, g) == g \in S /\ \A j \in S : ScoreIn(S, j) <= ScoreIn(S, g)

Candidates == IF PerfectFrames # {} THEN PerfectFrames ELSE Positions

NoPerfectLogged == InErrors("No Perfect Grafs Frames found.")

\* C23: find_graf_plane selects a frame with the highest score, and of
\* several frames sharing the highest score the one whose index is closest
\* to the middle of the volume, len(hip_datas) // 2.
C23_TieGoesToMidpoint ==
    (GrafPlaneRan /\ graf_frame # None) =>
        LET center == Len(hip_datas) \div 2
        IN  /\ BestIn(Candidates, GrafPos)
            /\ \A j \in Candidates :
                  ScoreIn(Candidates, j) = ScoreIn(Candidates, GrafPos)
                  => Abs(graf_frame - center)
                        <= Abs(hip_datas[j].frame_no - center)

\* C24 (as claimed): when some frame has at least one non-zero metric,
\* find_graf_plane scores exactly those frames, selects one of them and does
\* not log "No Perfect Grafs Frames found."; when there is none it scores
\* every frame, logs that diagnostic and sets critical.
C24_ScoresMarkedFrames ==
    GrafPlaneRan =>
        IF MarkedFrames # {}
        THEN /\ graf_frame # None => BestIn(MarkedFrames, GrafPos)
             /\ ~NoPerfectLogged
        ELSE /\ NoPerfectLogged /\ critical
             /\ graf_frame # None => BestIn(Positions, GrafPos)

\* C24 (amended): when some frame has all its metrics non-zero,
\* find_graf_plane scores exactly those frames, selects one of them and does
\* not log "No Perfect Grafs Frames found."; when there is none it scores
\* every frame, logs that diagnostic and sets critical.
C24_ScoresAllNonZeroFrames ==
    GrafPlaneRan =>
        IF PerfectFrames # {}
        THEN /\ graf_frame # None /\ BestIn(PerfectFrames, GrafPos)
             /\ ~NoPerfectLogged
        ELSE /\ NoPerfectLogged /\ critical
             /\ graf_frame # None => BestIn(Positions, GrafPos)

\* a frame with alpha but no coverage has a larger alpha than the frame
\* selected, which has both
C24_Witness ==
    /\ GrafPlaneRan /\ graf_frame # None
    /\ GrafPos \in PerfectFrames
    /\ \E i \in MarkedFrames \ PerfectFrames :
          get_metric(hip_datas[i], ALPHA)
             > get_metric(hip_datas[GrafPos], ALPHA)

\* ------------------------------------------------------ get_femoral_sphere
\* get_3d_metrics_and_visuals has run and a sphere was fitted
SphereFitted ==
    /\ \E k \in 1..Len(hist.stages) :
          hist.stages[k] = "get_3d_metrics_and_visuals"
    /\ hist.mesh.zs.sphere.found

\* the frame the sphere was fitted to
SphereHip ==
    hist.mesh.hds_before[
        CHOOSE i \in 1..Len(hist.mesh.hds_before) :
           /\ hist.mesh.hds_before[i].frame_no = hist.mesh.zs.fem_no
           /\ hist.mesh.hds_before[i].landmarks = "cov"]

\* the distance between point_D and point_d of that frame, which lie on one
\* vertical
SphereDistance == Abs(point_D(SphereHip)[2] - point_d(SphereHip)[2])

\* the centre is the midpoint of point_D and point_d, at the frame's z
SphereCentred ==
    LET c == hist.mesh.zs.sphere.center
        D == point_D(SphereHip)
        d == point_d(SphereHip)
    IN  /\ D[1] = d[1]
        /\ 2 * c[1] = D[1] + d[1]
        /\ 2 * c[2] = D[2] + d[2]
        /\ c[3] = SphereHip.frame_no
                    * ((z_gap * 200) \div Len(hist.mesh.hds_before))

\* C25 (as claimed): the sphere centre is the midpoint of the chosen frame's
\* point_D and point_d at that frame's z, and the radius is 1.05 times half
\* the distance between the two points.
C25_RadiusIsHalfInflatedFivePercent ==
    SphereFitted =>
        /\ SphereCentred
        /\ 200 * hist.mesh.zs.sphere.radius = 105 * SphereDistance

\* C25 (amended): the sphere centre is the midpoint of the chosen frame's
\* point_D and point_d at that frame's z, and the radius is half the distance
\* between the two points plus 5% of the whole distance, 0.55 times the
\* distance.
C25_RadiusIsHalfPlusFivePercentOfDistance ==
    SphereFitted =>
        /\ SphereCentred
        /\ 100 * hist.mesh.zs.sphere.radius = 55 * SphereDistance

\* a sphere was fitted to a frame that is not the first of the volume
C25_Witness ==
    /\ SphereFitted
    /\ hist.mesh.zs.fem_no >= 1
    /\ SphereDistance > 0
    /\ hist.mesh.zs.sphere.radius > SphereDistance \div 2

\* C26: whenever set_side swaps, the frame object held as grafs_hip has, on
\* return, a frame_no equal to graf_frame.
C26_SwapKeepsCanonicalFrame ==
    (SideRan /\ Swapped) => CanonicalNo = graf_frame

\* ------------------------------------------------------- zones and sides
\* get_aca has split the triangles of a surface around the canonical frame
ZonesSplit ==
    /\ LastStage = "get_3d_metrics_and_visuals"
    /\ pc = "done"
    /\ hist.mesh.has_mesh
    /\ hist.mesh.zs.centroids # {}

CentroidZs == {t.z : t \in hist.mesh.zs.centroids}
MinCentroidZ == CHOOSE z \in CentroidZs : \A y \in CentroidZs : z <= y
MaxCentroidZ == CHOOSE z \in CentroidZs : \A y \in CentroidZs : y <= z

\* the side set_side gave the frame with a frame number
SideOfFrame(no) ==
    hip_datas[CHOOSE i \in Positions : hip_datas[i].frame_no = no].side

\* C27: in both split modes, a triangle that get_aca puts in the Posterior or
\* the Anterior zone lies between frames to which set_side gave that same
\* side; so the triangles below the canonical frame carry the label of the
\* frames before it.
C27_ZoneAgreesWithFrameSide ==
    ZonesSplit =>
        \A aca_split \in {"THIRDS", "GRAFS"} :
           \A t \in hist.mesh.zs.centroids :
              LET third == aca_third(aca_split, t.z, MinCentroidZ,
                                     MaxCentroidZ, hist.mesh.zs.grafs_z)
              IN  (/\ third \in {"POST", "ANT"}
                   /\ SideOfFrame(t.lo) = SideOfFrame(t.hi)
                   /\ SideOfFrame(t.lo) \in {"POST", "ANT"})
                  => third = SideOfFrame(t.lo)

\* C28: set_side logs "No Side Detected." and skips the side assignment only
\* when neither half has a valid sample; a volume in which some frame gave an
\* offset sample, be it an offset of 0, gets its sides assigned.
C28_NoSideOnlyWithoutSamples ==
    SideRan =>
        /\ (\E k \in 1..Len(hist.side.errs) :
               hist.side.errs[k] = "No Side Detected.")
           => (hist.side.front = 0 /\ hist.side.back = 0)
        /\ (hist.side.front + hist.side.back >= 1)
           => (/\ hist.side.assigned
               /\ \A i \in Positions : hip_datas[i].side \in {"POST", "ANT"})

\* C29: after landmarks_2_metrics_us, after handle_bad_frames and after
\* set_side, with or without a swap, every frame's frame_no is its position in
\* the frame sequence.
C29_FrameNoIsPosition ==
    \A i \in Positions : hip_datas[i].frame_no = i - 1

\* a swapped volume in which validation had emptied a frame
C29_Witness ==
    /\ SideRan /\ Swapped
    /\ Len(hip_datas) = 3
    /\ Emptied # {}
    /\ Ids(hip_datas) = <<2, 1, 0>>
    /\ FrameNos(hip_datas) = <<0, 1, 2>>

\* ------------------------------------------------------- diagnostics log
\* the whole pipeline ran, the surface was built, every zone angle was
\* computed and no stage logged a message
ProblemFreeRun ==
    /\ pc = "done"
    /\ hist.mesh.has_mesh
    /\ \A z \in {"POST", "ANT", "GRAF"} : hist.mesh.aca[z] > 0
    /\ ~critical
    /\ \A k \in 1..Len(errors) : errors[k] = ""

\* RecordedError.__bool__
RecordedErrorTruthy == Len(errors) > 0

\* C30: the diagnostics log gains an entry only when a diagnostic condition
\* occurred: after a run in which no stage reported a problem the log has no
\* entries and the RecordedError object is falsy.
C30_CleanRunLeavesLogEmpty ==
    ProblemFreeRun => (errors = <<>> /\ ~RecordedErrorTruthy)
====
